---- MODULE Spec2Model ----
(***************************************************************************)
(* Forgejo K8s charm: the reconcile handler, the collect-status handler,   *)
(* the storage-attached handler (src/src/charm.py) and the configuration   *)
(* synthesizer (src/src/forgejo_handler.py).                               *)
(*                                                                         *)
(* Every handler is one atomic action (the framework dispatches handlers   *)
(* one at a time).  What a handler did is kept in `last`: the calls it     *)
(* made on its collaborators, in order, and the exception that left it.    *)
(*                                                                         *)
(* The operator configuration and the two relations are read by the        *)
(* handlers and written by none of them: a behaviour holds them fixed, and *)
(* every combination of them is an initial state.  The failures of the     *)
(* calls on the workload container, the random source and the output of    *)
(* the version probe are drawn afresh by every handler run.                *)
(*                                                                         *)
(* self.ingress, which _on_collect_status reads, is taken as the requirer  *)
(* of the same "ingress" relation that fetch_ingress_relation_data reads.  *)
(***************************************************************************)
EXTENDS Naturals, Sequences, FiniteSets, TLC

VARIABLES
    config,           \* operator configuration: [log_level, domain]
    database,         \* database relation: [relation, data]
    ingress,          \* "ingress" relation: [relation, external_host]
    file,             \* lines of /etc/forgejo.ini in the workload container
    plan,             \* services of the Pebble plan (layer "forgejo")
    running,          \* whether Pebble reports the forgejo service as active
    unit_status,      \* self.unit.status
    workload_version, \* value given to set_workload_version
    traefik_route,    \* host of the route last submitted to traefik
    last              \* record of the handler that ran last

vars == <<config, database, ingress, file, plan, running, unit_status,
          workload_version, traefik_route, last>>

(***************************************************************************)
(* Program constants                                                       *)
(***************************************************************************)
SERVICE_NAME == "forgejo"
FORGEJO_CLI == "/usr/local/bin/forgejo"
CUSTOM_FORGEJO_CONFIG == "/etc/forgejo.ini"
PORT == 3000
FORGEJO_DATA_DIR == "/data"
FORGEJO_SYSTEM_USER_ID == 1000
FORGEJO_SYSTEM_USER == "git"
FORGEJO_SYSTEM_GROUP_ID == 1000
FORGEJO_SYSTEM_GROUP == "git"

\* Python's None, where the code handles a str | None
None == "<None>"
\* no exception in flight
NoExc == "<none>"

\* self.app.name, self.model.name and socket.getfqdn() of the unit
AppName == "forgejo-k8s"
ModelName == "dev"
hostname == "forgejo-k8s-0.forgejo-k8s-endpoints.dev.svc.cluster.local"

database_name == ModelName \o "-" \o AppName

(***************************************************************************)
(* Bounds                                                                  *)
(***************************************************************************)
\* number of states the system's random source can be in when a document is
\* synthesized
SeedCount == 2

(***************************************************************************)
(* Sequences of strings                                                    *)
(***************************************************************************)
RECURSIVE Join(_)
Join(s) == IF s = <<>> THEN "" ELSE Head(s) \o Join(Tail(s))

\* str.split(sep) on a string given as its sequence of lexemes
RECURSIVE SplitFrom(_, _, _, _)
SplitFrom(s, sep, i, cur) ==
    IF i > Len(s) THEN <<Join(cur)>>
    ELSE IF s[i] = sep THEN <<Join(cur)>> \o SplitFrom(s, sep, i + 1, <<>>)
    ELSE SplitFrom(s, sep, i + 1, Append(cur, s[i]))

Split(s, sep) == SplitFrom(s, sep, 1, <<>>)

(***************************************************************************)
(* ForgejoConfig                                                           *)
(***************************************************************************)
ValidLogLevels == {"trace", "debug", "info", "warn", "error", "fatal"}

LogLevelError ==
    "Invalid log level number, should be one of trace, debug, info, warn, error, or fatal"

\* a load that validates nothing
ConfigErrorNever(c) == None

\* load_config(ForgejoConfig): the ValueError message, or None when it loads
ConfigError(c) ==
    IF c.log_level \notin ValidLogLevels THEN LogLevelError ELSE None

(***************************************************************************)
(* forgejo_handler.py                                                      *)
(***************************************************************************)
\* secrets.token_urlsafe(length)[:length]: the k-th token the random source
\* yields from the state `seed`, cut to `length` characters
random_token(length, seed, k) ==
    "tok" \o ToString(length) \o "-" \o ToString(seed) \o "." \o ToString(k)

Seeds == 1..SeedCount

\* the backquote character, which encloses each secret and the host of a
\* route rule (a TLA+ string cannot hold the character itself)
Backquote == "<backquote>"

Section(name, items) == [name |-> name, items |-> items]

\* the section assigned whatever the record is
database_section_always(database_info) ==
    << Section("database", database_info) >>

\* database_info is an ordered mapping, kept as a sequence of <<key, value>>;
\* the empty mapping is falsy: `if database_info: config["database"] = ...`
database_section(database_info) ==
    IF database_info # <<>>
    THEN << Section("database", database_info) >>
    ELSE << >>

\* default of generate_config's http_port parameter
DefaultHttpPort == 3000

generate_config(domain, http_port, database_info, log_level, use_port_in_domain, n) ==
    LET final_domain == IF use_port_in_domain
                        THEN domain \o ":" \o ToString(http_port)
                        ELSE domain
    IN  << Section("DEFAULT", <<
              <<"APP_NAME", "Forgejo">>,
              <<"APP_SLOGAN", "Beyond coding. We Forge.">>,
              <<"RUN_USER", "git">>,
              <<"WORK_PATH", "/data/gitea">>,
              <<"RUN_MODE", "prod">> >>) >>
        \o database_section(database_info)
        \o << Section("repository", <<
                 <<"ROOT", "/data/gitea/data/forgejo-repositories">> >>),
              Section("server", <<
                 <<"SSH_DOMAIN", domain>>,
                 <<"DOMAIN", domain>>,
                 <<"HTTP_PORT", ToString(http_port)>>,
                 <<"ROOT_URL", "http://" \o final_domain \o "/">>,
                 <<"APP_DATA_PATH", "/data/gitea/data">>,
                 <<"DISABLE_SSH", "false">>,
                 <<"SSH_PORT", "22">>,
                 <<"LFS_START_SERVER", "true">>,
                 <<"LFS_JWT_SECRET", Backquote \o random_token(44, n, 1) \o Backquote>>,
                 <<"OFFLINE_MODE", "true">> >>),
              Section("lfs", << <<"PATH", "/data/gitea/data/lfs">> >>),
              Section("mailer", << <<"ENABLED", "false">> >>),
              Section("service", <<
                 <<"REGISTER_EMAIL_CONFIRM", "false">>,
                 <<"ENABLE_NOTIFY_MAIL", "false">>,
                 <<"DISABLE_REGISTRATION", "false">>,
                 <<"ALLOW_ONLY_EXTERNAL_REGISTRATION", "false">>,
                 <<"ENABLE_CAPTCHA", "true">>,
                 <<"REQUIRE_SIGNIN_VIEW", "false">>,
                 <<"DEFAULT_KEEP_EMAIL_PRIVATE", "false">>,
                 <<"DEFAULT_ALLOW_CREATE_ORGANIZATION", "true">>,
                 <<"DEFAULT_ENABLE_TIMETRACKING", "true">>,
                 <<"NO_REPLY_ADDRESS", "noreply.localhost">> >>),
              Section("openid", <<
                 <<"ENABLE_OPENID_SIGNIN", "true">>,
                 <<"ENABLE_OPENID_SIGNUP", "true">> >>),
              Section("cron.update_checker", << <<"ENABLED", "true">> >>),
              Section("session", << <<"PROVIDER", "file">> >>),
              Section("log", <<
                 <<"MODE", "console">>,
                 <<"LEVEL", log_level>>,
                 <<"ROOT_PATH", "/data/gitea/log">> >>),
              Section("repository.pull-request", <<
                 <<"DEFAULT_MERGE_STYLE", "merge">> >>),
              Section("repository.signing", <<
                 <<"DEFAULT_TRUST_MODEL", "committer">> >>),
              Section("security", <<
                 <<"INSTALL_LOCK", "true">>,
                 <<"INTERNAL_TOKEN", Backquote \o random_token(104, n, 2) \o Backquote>>,
                 <<"PASSWORD_HASH_ALGO", "pbkdf2_hi">> >>),
              Section("oauth2", <<
                 <<"JWT_SECRET", Backquote \o random_token(44, n, 3) \o Backquote>> >>),
              Section("metrics", <<
                 <<"ENABLED", "true">>,
                 <<"ENABLED_ISSUE_BY_LABEL", "true">>,
                 <<"ENABLED_ISSUE_BY_REPOSITORY", "true">> >>) >>

\* cfg.write(buf): "[name]", one "key = value" line per option (optionxform
\* is str, so keys keep their case), and an empty line after each section.
\* A line is kept as the sequence of its lexemes.
WriteSection(section) ==
    LET items == section.items
        k == Len(items)
    IN  [i \in 1..(k + 2) |->
            IF i = 1 THEN <<"[", section.name, "]">>
            ELSE IF i = k + 2 THEN <<>>
            ELSE <<items[i - 1][1], " = ", items[i - 1][2]>>]

RECURSIVE WriteFrom(_, _)
WriteFrom(cfg, i) ==
    IF i > Len(cfg) THEN <<>> ELSE WriteSection(cfg[i]) \o WriteFrom(cfg, i + 1)

WriteConfig(cfg) == WriteFrom(cfg, 1)

(***************************************************************************)
(* The environment the handlers read                                       *)
(***************************************************************************)
Configs ==
    [log_level : {"info"}, domain : {"", "git.example.org"}]
    \cup { [log_level |-> "INFO", domain |-> ""],
           [log_level |-> "verbose", domain |-> "git.example.org"] }

\* a relation's data as the database library returns it: a mapping that is
\* empty until the provider has published, with the endpoints as lexemes
NoData == <<>>
ReadyData ==
    [endpoints |-> <<"db.example", ":", "5432">>, username |-> "u", password |-> "p"]
NoPortData ==
    [endpoints |-> <<"db.example">>, username |-> "u", password |-> "p"]
NoEndpointsData == [username |-> "u", password |-> "p"]

\* relation: model.get_relation('database'); data: the values of
\* database.fetch_relation_data(), one per relation the library reports
Databases ==
    { [relation |-> FALSE, data |-> <<>>] }
    \cup { [relation |-> TRUE, data |-> d] :
             d \in { <<>>, <<NoData>>, <<ReadyData>>, <<NoPortData>>,
                     <<NoEndpointsData>> } }

Ingresses ==
    { [relation |-> FALSE, external_host |-> None] }
    \cup { [relation |-> TRUE, external_host |-> h] :
             h \in {None, "git.example.org", "route.example.org"} }

\* output of `forgejo --version`, as lexemes: the literal "version ", single
\* characters where the pattern looks at them, other text
ProbeOutputs ==
    { <<"Forgejo ", "version ", "1", "1", ".", "0", ".", "3",
        "+gitea-1.22.0 (release name 11.0.3) built with go1.22">>,
      <<"Forgejo ", "version ", "unknown">>,
      <<"sh: forgejo: not found">> }

(***************************************************************************)
(* Failures of the calls on the workload container                         *)
(***************************************************************************)
\* an except clause that names ConnectionError alone
CaughtOnlyConnectionError == {"ConnectionError"}

\* what reconcile's except clause names
CaughtInReconcile == {"APIError", "ConnectionError"}

NoFault == [at |-> "none", exc |-> NoExc]

\* at: the call that fails; exc: what it raises (can_connect returns False)
Faults ==
    { NoFault }
    \cup { [at |-> "push", exc |-> e] : e \in {"APIError", "ConnectionError", "PathError"} }
    \cup { [at |-> "add_layer", exc |-> e] : e \in {"APIError", "ConnectionError"} }
    \cup { [at |-> "replan", exc |-> e] : e \in {"APIError", "ConnectionError", "ChangeError"} }
    \cup { [at |-> "can_connect", exc |-> NoExc] }
    \cup { [at |-> "exec", exc |-> e] : e \in {"APIError", "ConnectionError"} }
    \cup { [at |-> "wait_output", exc |-> e] : e \in {"ExecError", "ChangeError"} }

(***************************************************************************)
(* charm.py: helpers                                                       *)
(***************************************************************************)
Status(name, message) == [name |-> name, message |-> message]

\* a call made on a collaborator: ok is whether it returned what the handler
\* needs, exc the exception it raised
Call(op, arg, ok, exc) == [op |-> op, arg |-> arg, ok |-> ok, exc |-> exc]

\* fetch_postgres_relation_data over relations.values(): the record of the
\* first non-empty data, or the exception the parsing raises
RECURSIVE fetch_postgres_relation_data(_)
fetch_postgres_relation_data(relations) ==
    IF relations = <<>> THEN [exc |-> NoExc, value |-> <<>>]
    ELSE LET data == Head(relations) IN
         IF DOMAIN data = {} THEN fetch_postgres_relation_data(Tail(relations))
         ELSE IF "endpoints" \notin DOMAIN data THEN [exc |-> "KeyError", value |-> <<>>]
         ELSE LET parts == Split(data.endpoints, ":") IN
              IF Len(parts) # 2 THEN [exc |-> "ValueError", value |-> <<>>]
              ELSE IF {"username", "password"} \ DOMAIN data # {}
                   THEN [exc |-> "KeyError", value |-> <<>>]
              ELSE [exc |-> NoExc,
                    value |-> << <<"DB_TYPE", "postgres">>,
                                 <<"HOST", parts[1]>>,
                                 <<"PORT", parts[2]>>,
                                 <<"NAME", database_name>>,
                                 <<"USER", data.username>>,
                                 <<"PASSWD", data.password>>,
                                 <<"SCHEMA", "">>,
                                 <<"SSL_MODE", "disable">>,
                                 <<"LOG_SQL", "false">> >>]

\* fetch_ingress_relation_data: external_host of the relation's app data
fetch_ingress_relation_data(ing) ==
    IF ing.relation THEN ing.external_host ELSE None

\* self.ingress.url: the url of the same "ingress" relation, None until the
\* provider has advertised a host
ingress_url(ing) ==
    IF ing.relation /\ ing.external_host # None
    THEN "http://" \o ing.external_host \o "/"
    ELSE None

\* get_traefik_route_configuration(domain): the router rule and the server
get_traefik_route_configuration(domain) ==
    [rule |-> "Host(" \o Backquote \o domain \o Backquote \o ")",
     service |-> ModelName \o "-" \o AppName \o "-service",
     servers |-> <<"http://" \o hostname \o ":" \o ToString(PORT)>>]

\* _get_pebble_layer
pebble_layer ==
    [service |-> SERVICE_NAME,
     override |-> "replace",
     command |-> FORGEJO_CLI \o " web --config=" \o CUSTOM_FORGEJO_CONFIG,
     startup |-> "enabled",
     user_id |-> FORGEJO_SYSTEM_USER_ID,
     group_id |-> FORGEJO_SYSTEM_GROUP_ID,
     working_dir |-> FORGEJO_DATA_DIR]

\* container.add_layer(label, layer, combine=True): the layer replaces the
\* one of the same label, or is appended
add_layer(layers, label, layer) ==
    IF \E i \in 1..Len(layers) : layers[i].label = label
    THEN [i \in 1..Len(layers) |->
            IF layers[i].label = label THEN [label |-> label, layer |-> layer]
            ELSE layers[i]]
    ELSE Append(layers, [label |-> label, layer |-> layer])

\* re.search(r"version (\d*\.\d*\.\d*)", version_output)
Digits == {"0", "1", "2", "3", "4", "5", "6", "7", "8", "9"}

RECURSIVE SkipDigits(_, _)
SkipDigits(s, i) ==
    IF i <= Len(s) /\ s[i] \in Digits THEN SkipDigits(s, i + 1) ELSE i

\* the end of group 1 when the pattern matches at lexeme i, 0 when it does not
MatchEnd(s, i) ==
    IF s[i] # "version " THEN 0
    ELSE LET a == SkipDigits(s, i + 1) IN
         IF a > Len(s) \/ s[a] # "." THEN 0
         ELSE LET b == SkipDigits(s, a + 1) IN
              IF b > Len(s) \/ s[b] # "." THEN 0
              ELSE SkipDigits(s, b + 1) - 1

\* group(1) of the leftmost match, None when there is none
ParseVersion(version_output) ==
    LET hits == {i \in 1..Len(version_output) : MatchEnd(version_output, i) # 0} IN
    IF hits = {} THEN None
    ELSE LET i == CHOOSE j \in hits : \A k \in hits : j <= k
         IN  Join(SubSeq(version_output, i + 1, MatchEnd(version_output, i)))

(***************************************************************************)
(* charm.py: reconcile                                                     *)
(*                                                                         *)
(* An invocation is threaded through its steps as a record: exc is the     *)
(* exception in flight (a step is skipped once one is), trace the calls    *)
(* made so far, and the other fields the state the calls act on.           *)
(***************************************************************************)
Raise(r, e) == [r EXCEPT !.exc = e]

Did(r, call) == [r EXCEPT !.trace = Append(@, call)]

\* the test without `config.domain and`
route_differs_unset(domain, ingress_url_domain) ==
    domain # ingress_url_domain

\* line 200: `if config.domain and config.domain != ingress_url_domain`
route_differs(domain, ingress_url_domain) ==
    domain # "" /\ domain # ingress_url_domain

\* lines 200-206: submit the route of the configured domain
SubmitStep(r, c, ingress_url_domain) ==
    IF r.exc # NoExc THEN r
    ELSE IF route_differs(c.domain, ingress_url_domain)
    THEN [Did(r, Call("submit_to_traefik", c.domain, TRUE, NoExc))
            EXCEPT !.route = get_traefik_route_configuration(c.domain)]
    ELSE r

\* line 210: the domain given to generate_config
config_domain(c) == IF c.domain # "" THEN c.domain ELSE hostname

\* lines 209-214: synthesize the document
GenerateStep(r, c, db_data) ==
    IF r.exc # NoExc THEN r
    ELSE Did(r, [op |-> "generate_config", arg |-> config_domain(c), ok |-> TRUE,
                 exc |-> NoExc, log_level |-> c.log_level, database_info |-> db_data,
                 use_port_in_domain |-> FALSE])

\* a push whose failure is recorded and passed over
PushStepContinuing(r, cfg, fault) ==
    IF r.exc # NoExc THEN r
    ELSE IF fault.at = "push"
    THEN Did(r, [op |-> "push", arg |-> CUSTOM_FORGEJO_CONFIG, ok |-> FALSE,
                 exc |-> fault.exc])
    ELSE [Did(r, [op |-> "push", arg |-> CUSTOM_FORGEJO_CONFIG, ok |-> TRUE,
                  exc |-> NoExc])
            EXCEPT !.file = WriteConfig(cfg)]

\* lines 215-223: container.push of the serialized document
PushStep(r, cfg, fault) ==
    IF r.exc # NoExc THEN r
    ELSE IF fault.at = "push"
    THEN Raise(Did(r, Call("push", CUSTOM_FORGEJO_CONFIG, FALSE, fault.exc)), fault.exc)
    ELSE [Did(r, Call("push", CUSTOM_FORGEJO_CONFIG, TRUE, NoExc))
            EXCEPT !.file = WriteConfig(cfg)]

\* line 225: container.add_layer('forgejo', layer, combine=True)
AddLayerStep(r, fault) ==
    IF r.exc # NoExc THEN r
    ELSE IF fault.at = "add_layer"
    THEN Raise(Did(r, Call("add_layer", "forgejo", FALSE, fault.exc)), fault.exc)
    ELSE [Did(r, Call("add_layer", "forgejo", TRUE, NoExc))
            EXCEPT !.plan = add_layer(@, "forgejo", pebble_layer)]

\* line 230: container.replan() starts the enabled services of the plan; a
\* ChangeError is a service that did not start
ReplanStep(r, fault) ==
    IF r.exc # NoExc THEN r
    ELSE IF fault.at = "replan"
    THEN [Raise(Did(r, Call("replan", "", FALSE, fault.exc)), fault.exc)
            EXCEPT !.running = IF fault.exc = "ChangeError" THEN FALSE ELSE @]
    ELSE [Did(r, Call("replan", "", TRUE, NoExc)) EXCEPT !.running = TRUE]

\* lines 149-164 and 233-236: the version probe and set_workload_version
VersionStep(r, fault, version_output) ==
    IF r.exc # NoExc THEN r
    ELSE IF fault.at = "can_connect"
    THEN Did(r, Call("can_connect", "", FALSE, NoExc))
    ELSE LET r1 == Did(r, Call("can_connect", "", TRUE, NoExc)) IN
         IF fault.at \in {"exec", "wait_output"}
         THEN Raise(Did(r1, Call("exec", FORGEJO_CLI \o " --version", FALSE, fault.exc)),
                    fault.exc)
         ELSE LET r2 == Did(r1, Call("exec", FORGEJO_CLI \o " --version", TRUE, NoExc))
                  version == ParseVersion(version_output)
              IN  IF version # None /\ version # ""
                  THEN [Did(r2, Call("set_workload_version", version, TRUE, NoExc))
                          EXCEPT !.version = version]
                  ELSE r2

\* line 238: `except (ops.pebble.APIError, ops.pebble.ConnectionError)`
ExceptStep(r) ==
    IF r.exc \in CaughtInReconcile THEN [r EXCEPT !.exc = NoExc, !.caught = r.exc]
    ELSE r

\* lines 196-239: the body of the try statement and its except clause; each
\* step is applied to the value the step before it returned
reconcile_try(r, c, db_data, ingress_url_domain, fault, n, version_output) ==
    LET Only(S) == CHOOSE x \in S : TRUE
        r2 == Only({SubmitStep(x, c, ingress_url_domain) : x \in {r}})
        r3 == Only({GenerateStep(x, c, db_data) : x \in {r2}})
        r4 == Only({PushStep(x, generate_config(config_domain(c), DefaultHttpPort,
                                                db_data, c.log_level, FALSE, n),
                             fault) : x \in {r3}})
        r5 == Only({AddLayerStep(x, fault) : x \in {r4}})
        r6 == Only({ReplanStep(x, fault) : x \in {r5}})
        r7 == Only({VersionStep(x, fault, version_output) : x \in {r6}})
    IN  Only({ExceptStep(x) : x \in {r7}})

\* lines 187-239
reconcile(r0, c, db, ing, fault, n, version_output) ==
    LET r == [r0 EXCEPT !.status = Status("maintenance", "starting workload")]
        err == ConfigError(c)
    IN  IF err # None
        THEN [r EXCEPT !.status = Status("blocked", err)]
        ELSE LET Only(S) == CHOOSE x \in S : TRUE IN
             Only({ IF pg.exc # NoExc
                    THEN ExceptStep(Raise(r, pg.exc))
                    ELSE reconcile_try(r, c, pg.value, fetch_ingress_relation_data(ing),
                                       fault, n, version_output)
                    : pg \in {fetch_postgres_relation_data(db.data)} })

(***************************************************************************)
(* charm.py: _on_collect_status                                            *)
(***************************************************************************)
\* the framework reports the most severe status added, the first added among
\* equals
Priority(name) ==
    CASE name = "error" -> 5
      [] name = "blocked" -> 4
      [] name = "maintenance" -> 3
      [] name = "waiting" -> 2
      [] name = "active" -> 1
      [] OTHER -> 0

HighestPriority(statuses) ==
    LET best == CHOOSE i \in 1..Len(statuses) :
                  /\ \A j \in 1..Len(statuses) :
                        Priority(statuses[j].name) <= Priority(statuses[i].name)
                  /\ \A j \in 1..(i - 1) :
                        Priority(statuses[j].name) < Priority(statuses[i].name)
    IN  statuses[best]

\* serving_message tests the bound method itself, which is always truthy
serving_message ==
    "Serving at <bound method ForgejoK8SOperatorCharm.fetch_ingress_relation_data>"

\* container.get_service(name): the exception it raises, NoExc when it
\* returns; pebble_exc is the failure of the call to Pebble, if any
get_service_exc(layers, pebble_exc) ==
    IF pebble_exc # NoExc THEN pebble_exc
    ELSE IF \A i \in 1..Len(layers) : layers[i].layer.service # SERVICE_NAME
    THEN "ModelError"
    ELSE NoExc

\* the two tests with their statuses exchanged
database_statuses_exchanged(db) ==
    IF ~db.relation
    THEN <<[name |-> "waiting", message |-> "Waiting for database relation"]>>
    ELSE IF db.data = <<>>
    THEN <<[name |-> "blocked", message |-> "Waiting for database relation"]>>
    ELSE <<>>

\* lines 129-134: the status the database relation adds, if any; the second
\* test is `not self.database.fetch_relation_data()`, true of the empty mapping
database_statuses(db) ==
    IF ~db.relation
    THEN <<Status("blocked", "Waiting for database relation")>>
    ELSE IF db.data = <<>>
    THEN <<Status("waiting", "Waiting for database relation")>>
    ELSE <<>>

\* lines 124-146: the statuses added, in order
collect_statuses(c, db, ing, layers, is_running, pebble_exc) ==
    LET err == ConfigError(c)
        svc == get_service_exc(layers, pebble_exc)
    IN  (IF err # None THEN <<Status("blocked", err)>> ELSE <<>>)
        \o database_statuses(db)
        \o (IF ingress_url(ing) = None
            THEN <<Status("waiting", "Waiting for ingress relation")>>
            ELSE <<>>)
        \o (IF svc \in {"APIError", "ConnectionError", "ModelError"}
            THEN <<Status("maintenance", "Waiting for Pebble in workload container")>>
            ELSE IF ~is_running
            THEN <<Status("maintenance", "Waiting for Forgejo to start up")>>
            ELSE <<>>)
        \o <<Status("active", serving_message)>>

(***************************************************************************)
(* State machine                                                           *)
(***************************************************************************)
Idle == [handler |-> "none", trace |-> <<>>, raised |-> NoExc, caught |-> NoExc,
         statuses |-> <<>>]

\* after construction on a fresh unit: nothing in the container yet, the
\* route of the application name submitted (line 75); the configuration and
\* the relations are whatever the deployment holds
Init ==
    /\ config \in Configs
    /\ database \in Databases
    /\ ingress \in Ingresses
    /\ file = <<>>
    /\ plan = <<>>
    /\ running = FALSE
    /\ unit_status = Status("unknown", "")
    /\ workload_version = None
    /\ traefik_route = get_traefik_route_configuration(AppName)
    /\ last = Idle

\* the draws a run can show: a push that fails writes no document, and the
\* probe's output is read only when every call succeeds
SeedsOf(fault) ==
    IF fault.at = "push" THEN {1} ELSE Seeds

OutputsOf(fault) ==
    IF fault = NoFault THEN ProbeOutputs ELSE {<<"sh: forgejo: not found">>}

\* pebble_ready, config_changed, database_created, endpoints_changed,
\* ingress ready and ingress revoked all run reconcile
Reconcile ==
    \E fault \in Faults : \E n \in SeedsOf(fault) : \E out \in OutputsOf(fault) :
        \E r \in {reconcile([exc |-> NoExc, caught |-> NoExc, trace |-> <<>>,
                               file |-> file, plan |-> plan, running |-> running,
                               version |-> workload_version, route |-> traefik_route,
                               status |-> unit_status],
                              config, database, ingress, fault, n, out)} :
            /\ file' = r.file
            /\ plan' = r.plan
            /\ running' = r.running
            /\ workload_version' = r.version
            /\ traefik_route' = r.route
            /\ unit_status' = r.status
            /\ last' = [handler |-> "reconcile", trace |-> r.trace, raised |-> r.exc,
                        caught |-> r.caught, statuses |-> <<>>]
            /\ UNCHANGED <<config, database, ingress>>

\* collect_unit_status
CollectStatus ==
    \E pebble_exc \in {NoExc, "APIError", "ConnectionError"} :
        \E statuses \in {collect_statuses(config, database, ingress, plan, running,
                                           pebble_exc)} :
            /\ unit_status' = HighestPriority(statuses)
            /\ last' = [handler |-> "collect_status",
                        trace |-> <<Call("get_service", SERVICE_NAME,
                                         get_service_exc(plan, pebble_exc) = NoExc,
                                         get_service_exc(plan, pebble_exc))>>,
                        raised |-> NoExc, caught |-> get_service_exc(plan, pebble_exc),
                        statuses |-> statuses]
            /\ UNCHANGED <<config, database, ingress, file, plan, running,
                           workload_version, traefik_route>>

\* lines 334-335: data_storage_attached runs chown in the container, outside
\* any try
StorageAttached ==
    \E exc \in {NoExc, "APIError", "ConnectionError"} :
        /\ last' = [handler |-> "storage_attached",
                    trace |-> <<Call("exec", "chown " \o FORGEJO_SYSTEM_USER \o ":"
                                     \o FORGEJO_SYSTEM_GROUP \o " " \o FORGEJO_DATA_DIR,
                                     exc = NoExc, exc)>>,
                    raised |-> exc, caught |-> NoExc, statuses |-> <<>>]
        /\ UNCHANGED <<config, database, ingress, file, plan, running, unit_status,
                       workload_version, traefik_route>>

\* the forgejo process exits
ServiceExit ==
    /\ running
    /\ running' = FALSE
    /\ last' = Idle
    /\ UNCHANGED <<config, database, ingress, file, plan, unit_status,
                   workload_version, traefik_route>>

Next ==
    \/ Reconcile
    \/ CollectStatus
    \/ StorageAttached
    \/ ServiceExit

Spec == Init /\ [][Next]_vars

(***************************************************************************)
(* Reading the record of the last handler and the pushed file              *)
(***************************************************************************)
Reconciled == last.handler = "reconcile"

StatusQueried == last.handler = "collect_status"

ConfigValid == ConfigError(config) = None

Made(l, op) == \E i \in 1..Len(l.trace) : l.trace[i].op = op

Succeeded(l, op) == \E i \in 1..Len(l.trace) : l.trace[i].op = op /\ l.trace[i].ok

\* the handler was reconcile and its push of the file succeeded
PushedIn(l) == l.handler = "reconcile" /\ Succeeded(l, "push")

\* the call of generate_config the last reconcile made
Synthesis == last.trace[CHOOSE i \in 1..Len(last.trace) : last.trace[i].op = "generate_config"]

HasSection(lines, name) == \E i \in 1..Len(lines) : lines[i] = <<"[", name, "]">>

\* the option lines of a section: from its header to the next empty line
SectionLines(lines, name) ==
    LET start == CHOOSE i \in 1..Len(lines) : lines[i] = <<"[", name, "]">>
        stop == CHOOSE j \in (start + 1)..Len(lines) :
                   /\ lines[j] = <<>>
                   /\ \A k \in (start + 1)..(j - 1) : lines[k] # <<>>
    IN  SubSeq(lines, start + 1, stop - 1)

\* the database relation has produced connection data
DatabaseHasData == \E i \in 1..Len(database.data) : DOMAIN database.data[i] # {}

HostnameKnown == fetch_ingress_relation_data(ingress) # None

StartingWorkload == Status("maintenance", "starting workload")

(***************************************************************************)
(* C1                                                                      *)
(***************************************************************************)
\* C1: of two consecutive runs of reconcile with the same configuration,
\* database relation data, ingress data and hostname that both push the file,
\* the second pushes the bytes the first pushed, secrets included.
C1_SecondRunPushesSameBytes ==
    [][ ( /\ PushedIn(last)
          /\ PushedIn(last')
          /\ config' = config /\ database' = database /\ ingress' = ingress )
        => file' = file ]_vars

(***************************************************************************)
(* C2                                                                      *)
(***************************************************************************)
\* C2: with a log_level outside the six valid ones, reconcile ends with the
\* status blocked carrying the validation error text, having raised nothing
\* and made no call at all (no route, no synthesis, no push, no layer, no
\* replan, no version); the container, the route and the workload version
\* are as they were at construction.
C2_InvalidLogLevelAborts ==
    config.log_level \notin {"trace", "debug", "info", "warn", "error", "fatal"} =>
        /\ Reconciled =>
              /\ unit_status = Status("blocked", LogLevelError)
              /\ last.trace = <<>>
              /\ last.raised = NoExc
        /\ file = <<>>
        /\ plan = <<>>
        /\ ~running
        /\ workload_version = None
        /\ traefik_route = get_traefik_route_configuration(AppName)

C2_Witness ==
    /\ Reconciled
    /\ config.log_level = "INFO"
    /\ unit_status.name = "blocked"

(***************************************************************************)
(* C3                                                                      *)
(***************************************************************************)
\* C3 as stated: on a status query with no database relation, the status is
\* blocked with 'Waiting for database relation', whatever the rest is.
C3_NoRelationAlwaysWaitingForDatabase ==
    (StatusQueried /\ ~database.relation) =>
        unit_status = Status("blocked", "Waiting for database relation")

\* C3 amended: on a status query with no database relation the status is
\* blocked; its message is 'Waiting for database relation' when the operator
\* configuration is valid, and the validation error text when it is not,
\* whatever the ingress, the supervisor and the service are.
C3_NoRelationBlocked ==
    (StatusQueried /\ ~database.relation) =>
        unit_status = IF ConfigValid
                      THEN Status("blocked", "Waiting for database relation")
                      ELSE Status("blocked", LogLevelError)

\* everything but the database relation is in place
C3_Witness ==
    /\ StatusQueried
    /\ ~database.relation
    /\ ConfigValid
    /\ HostnameKnown
    /\ last.trace[1].ok
    /\ running
    /\ unit_status = Status("blocked", "Waiting for database relation")

(***************************************************************************)
(* C4                                                                      *)
(***************************************************************************)
\* C4: on a status query the status is active if and only if the operator
\* configuration is valid, the database relation exists and has produced
\* connection data, a hostname is known, the supervisor is reachable and the
\* service is running.
C4_ActiveIffAllReady ==
    StatusQueried =>
        ( unit_status.name = "active"
          <=> ( /\ ConfigValid
                /\ database.relation
                /\ DatabaseHasData
                /\ HostnameKnown
                /\ last.trace[1].ok
                /\ running ) )

(***************************************************************************)
(* C5                                                                      *)
(***************************************************************************)
\* C5: the domain reconcile gives to the synthesizer is the advertised
\* hostname when there is one, else the operator's domain when it is not
\* empty, else the unit's own network name.
C5_EffectiveDomain ==
    (Reconciled /\ Made(last, "generate_config")) =>
        Synthesis.arg = IF HostnameKnown THEN fetch_ingress_relation_data(ingress)
                        ELSE IF config.domain # "" THEN config.domain
                        ELSE hostname

(***************************************************************************)
(* C6                                                                      *)
(***************************************************************************)
\* the database record the last reconcile collected and gave to the synthesizer
DatabaseRecord == Synthesis.database_info

\* C6 as stated: the pushed document has a database section if and only if the
\* database record is not empty, and for the record collected from endpoint
\* 'db.example:5432', username 'u', password 'p' the section holds exactly
\* TYPE=postgres, HOST=db.example, PORT=5432, USER=u, PASSWD=p.
C6_DatabaseSectionFiveKeys ==
    PushedIn(last) =>
        /\ HasSection(file, "database") <=> DatabaseRecord # <<>>
        /\ database.data = <<ReadyData>> =>
              SectionLines(file, "database") =
                 << <<"TYPE", " = ", "postgres">>,
                    <<"HOST", " = ", "db.example">>,
                    <<"PORT", " = ", "5432">>,
                    <<"USER", " = ", "u">>,
                    <<"PASSWD", " = ", "p">> >>

\* C6 amended: the pushed document has a database section if and only if the
\* database record is not empty, and for that relation data the section holds
\* exactly DB_TYPE=postgres, HOST=db.example, PORT=5432, NAME=<model>-<app>,
\* USER=u, PASSWD=p, SCHEMA= (empty), SSL_MODE=disable, LOG_SQL=false.
C6_DatabaseSectionNineKeys ==
    PushedIn(last) =>
        /\ HasSection(file, "database") <=> DatabaseRecord # <<>>
        /\ database.data = <<ReadyData>> =>
              SectionLines(file, "database") =
                 << <<"DB_TYPE", " = ", "postgres">>,
                    <<"HOST", " = ", "db.example">>,
                    <<"PORT", " = ", "5432">>,
                    <<"NAME", " = ", "dev-forgejo-k8s">>,
                    <<"USER", " = ", "u">>,
                    <<"PASSWD", " = ", "p">>,
                    <<"SCHEMA", " = ", "">>,
                    <<"SSL_MODE", " = ", "disable">>,
                    <<"LOG_SQL", " = ", "false">> >>

C6_Witness ==
    /\ PushedIn(last)
    /\ database.data = <<ReadyData>>
    /\ HasSection(file, "database")

(***************************************************************************)
(* C7                                                                      *)
(***************************************************************************)
\* C7: in a reconcile invocation a replan is requested only after the push of
\* the file succeeded and then the layer was added, in that order; when the
\* push fails neither add_layer nor replan is called.  In the container, a
\* layer is in the plan only if the file has been written.
C7_FileBeforePlan ==
    /\ Reconciled =>
          /\ \A i \in 1..Len(last.trace) :
                last.trace[i].op = "replan" =>
                   \E j \in 1..(i - 1) : \E k \in (j + 1)..(i - 1) :
                      /\ last.trace[j].op = "push" /\ last.trace[j].ok
                      /\ last.trace[k].op = "add_layer" /\ last.trace[k].ok
          /\ (Made(last, "push") /\ ~Succeeded(last, "push")) =>
                (~Made(last, "add_layer") /\ ~Made(last, "replan"))
    /\ plan # <<>> => file # <<>>

C7_Witness ==
    /\ Reconciled
    /\ Succeeded(last, "push")
    /\ Succeeded(last, "add_layer")
    /\ Made(last, "replan")

(***************************************************************************)
(* C8                                                                      *)
(***************************************************************************)
SupervisorCalls == {"push", "add_layer", "replan", "can_connect", "exec"}

\* a call on the supervisor failed in the last reconcile
SupervisorCallFailed ==
    \E i \in 1..Len(last.trace) :
        last.trace[i].op \in SupervisorCalls /\ ~last.trace[i].ok

\* C8 as stated: whatever failure a supervisor call of steps 5-7 has, reconcile
\* ends without raising.
C8_AnySupervisorFailureCaught ==
    (Reconciled /\ SupervisorCallFailed) => last.raised = NoExc

\* C8 amended: a supervisor call of steps 5-7 that fails with APIError or
\* ConnectionError, or a supervisor that cannot be connected to for the
\* version probe, ends reconcile without raising; any other failure of such a
\* call (PathError, ChangeError, ExecError) is raised to the framework.  No
\* progress is kept: every reconcile with a valid configuration and a
\* parsable database record synthesizes and pushes again, whatever was
\* written before.
C8_ConnectionFailureCaught ==
    Reconciled =>
        /\ \A i \in 1..Len(last.trace) :
              (last.trace[i].op \in SupervisorCalls /\ ~last.trace[i].ok) =>
                 /\ last.trace[i].exc \in {"APIError", "ConnectionError", NoExc}
                       => last.raised = NoExc
                 /\ last.trace[i].exc \in {"PathError", "ChangeError", "ExecError"}
                       => last.raised = last.trace[i].exc
        /\ (ConfigValid /\ fetch_postgres_relation_data(database.data).exc = NoExc) =>
              (Made(last, "generate_config") /\ Made(last, "push"))

\* a run that fails on a connection error after an earlier run wrote the file
C8_Witness ==
    /\ Reconciled
    /\ file # <<>>
    /\ \E i \in 1..Len(last.trace) :
          /\ last.trace[i].op = "push"
          /\ last.trace[i].exc = "ConnectionError"
    /\ last.raised = NoExc

(***************************************************************************)
(* C9                                                                      *)
(***************************************************************************)
\* C9: a reconcile that writes a configuration without a database section
\* does not end with the status it set at entry; it reports blocked when the
\* database relation does not exist and waiting when it has no data yet.
C9_NoSilentRunWithoutDatabase ==
    (PushedIn(last) /\ ~HasSection(file, "database")) =>
        /\ unit_status # StartingWorkload
        /\ ~database.relation => unit_status.name = "blocked"
        /\ database.relation => unit_status.name = "waiting"

(***************************************************************************)
(* C10                                                                     *)
(***************************************************************************)
\* the routes the last reconcile submitted, and where
Submissions == {i \in 1..Len(last.trace) : last.trace[i].op = "submit_to_traefik"}

SubmittedBeforePush ==
    \A i \in Submissions :
        /\ last.trace[i].arg = config.domain
        /\ \A j \in 1..Len(last.trace) : last.trace[j].op = "push" => i < j

\* C10 as stated: with a valid configuration, reconcile submits a route for
\* the configured domain if and only if that domain differs from the
\* advertised hostname, and does so before the push.  (An empty domain and no
\* advertised hostname are taken as equal.)
C10_RouteIffDomainDiffers ==
    (Reconciled /\ ConfigValid) =>
        /\ Submissions # {}
              <=> config.domain # (IF HostnameKnown
                                   THEN fetch_ingress_relation_data(ingress)
                                   ELSE "")
        /\ SubmittedBeforePush

\* C10 amended: with a valid configuration, reconcile submits a route for the
\* configured domain if and only if that domain is not empty, differs from the
\* advertised hostname, and collecting the database record did not raise; it
\* submits it once, before the push.  With an empty domain, or a domain equal
\* to the advertised hostname, it submits no route.
C10_RouteIffDomainSetAndDiffers ==
    (Reconciled /\ ConfigValid) =>
        /\ Submissions # {}
              <=> ( /\ config.domain # ""
                    /\ config.domain # fetch_ingress_relation_data(ingress)
                    /\ fetch_postgres_relation_data(database.data).exc = NoExc )
        /\ Cardinality(Submissions) <= 1
        /\ SubmittedBeforePush

C10_Witness ==
    /\ Reconciled
    /\ ConfigValid
    /\ Submissions # {}
    /\ Succeeded(last, "push")
    /\ ingress.external_host = "route.example.org"

====
